---- MODULE Spec2Model ----
(***************************************************************************)
(* Model of src/tool.py: the CSV/XLSX to OFX conversion (render_ofx and   *)
(* the helpers it calls).  Text is modelled as a sequence of one-character *)
(* strings, so that parsing and formatting are computed, not assumed.      *)
(***************************************************************************)
EXTENDS Integers, Sequences, FiniteSets, TLC

VARIABLES
    df,             \* the source table: a sequence of rows, row k has index label k-1
    columns,        \* the source's column set (df.columns)
    date_col, amount_col, name_col, memo_col,   \* the column mapping
    invert_amount,  \* "Invert amount sign"
    date_format,    \* explicit date pattern, blank = generic parsing
    frame,          \* render_ofx's local copy of df with __date and __amount
    start_date, end_date,   \* the statement's date range (timestamps)
    dtserver,       \* the timestamp rendered in <DTSERVER>
    stmttrn,        \* the <STMTTRN> blocks appended to lines so far
    pc,             \* position in render_ofx
    clock           \* the wall clock, read by datetime.now()

vars == << df, columns, date_col, amount_col, name_col, memo_col, invert_amount,
           date_format, frame, start_date, end_date, dtserver, stmttrn, pc, clock >>

(***************************************************************************)
(* Bounds of the model.                                                    *)
(***************************************************************************)
MaxRows == 2
MaxClock == 1
MaxIndex == 11

(***************************************************************************)
(* Text helpers: Python's str operations used by the source.              *)
(***************************************************************************)
Digits == << "0", "1", "2", "3", "4", "5", "6", "7", "8", "9" >>

IsDigit(c) == \E k \in 1..10 : Digits[k] = c

DigitVal(c) == (CHOOSE k \in 1..10 : Digits[k] = c) - 1

\* str.isspace(): the whitespace characters that can occur in a cell
Whitespace == { " ", "\t", "\n", "\r" }

RECURSIVE LStrip(_)
LStrip(s) == IF s # << >> /\ s[1] \in Whitespace THEN LStrip(Tail(s)) ELSE s

RECURSIVE RStrip(_)
RStrip(s) ==
    IF s # << >> /\ s[Len(s)] \in Whitespace THEN RStrip(SubSeq(s, 1, Len(s) - 1)) ELSE s

\* str.strip()
Strip(s) == RStrip(LStrip(s))

\* s[:n]
Prefix(s, n) == SubSeq(s, 1, IF Len(s) < n THEN Len(s) ELSE n)

\* s.replace(c, "")
RECURSIVE Remove(_, _)
Remove(s, c) ==
    IF s = << >> THEN << >>
    ELSE IF s[1] = c THEN Remove(Tail(s), c)
    ELSE << s[1] >> \o Remove(Tail(s), c)

\* the value of a string of decimal digits
RECURSIVE NumOf(_)
NumOf(s) ==
    IF s = << >> THEN 0
    ELSE NumOf(SubSeq(s, 1, Len(s) - 1)) * 10 + DigitVal(s[Len(s)])

AllDigits(s) == \A k \in 1..Len(s) : IsDigit(s[k])

\* str(n) for a natural number
RECURSIVE FormatNat(_)
FormatNat(n) ==
    IF n < 10 THEN << Digits[n + 1] >>
    ELSE FormatNat(n \div 10) \o << Digits[(n % 10) + 1] >>

\* zero-padded to at least w digits (%Y, %m, %d, %H, %M, %S)
RECURSIVE Pad(_, _)
Pad(n, w) == IF Len(FormatNat(n)) >= w THEN FormatNat(n) ELSE << "0" >> \o Pad(n, w - 1)

(***************************************************************************)
(* Cells.  A cell of the table is missing (pandas NaN, what read_csv and   *)
(* read_excel give for an empty cell) or holds text.                       *)
(***************************************************************************)
Missing == [nan |-> TRUE, text |-> << >>]

Text(s) == [nan |-> FALSE, text |-> s]

\* str(cell): Python renders a float NaN as "nan"
StrOf(cell) == IF cell.nan THEN << "n", "a", "n" >> ELSE cell.text

(***************************************************************************)
(* Amounts: a float is NaN or a sign and a magnitude, kept in thousandths  *)
(* (the cells of the model carry at most three fractional digits).         *)
(***************************************************************************)
NaN == [nan |-> TRUE, neg |-> FALSE, mills |-> 0]

Float(neg, mills) == [nan |-> FALSE, neg |-> neg, mills |-> mills]

DotPositions(s) == { k \in 1..Len(s) : s[k] = "." }

\* the fractional digits f as thousandths
FracMills(f) == NumOf(Prefix(f \o << "0", "0", "0" >>, 3))

\* a decimal literal: [sign] digits [. digits], at least one digit
ParseDecimal(s) ==
    LET neg  == s # << >> /\ s[1] = "-"
        body == IF s # << >> /\ s[1] \in { "-", "+" } THEN Tail(s) ELSE s
        dots == DotPositions(body)
    IN  IF dots = { } THEN
            IF body # << >> /\ AllDigits(body) THEN Float(neg, NumOf(body) * 1000) ELSE NaN
        ELSE IF Cardinality(dots) = 1 THEN
            LET p  == CHOOSE k \in dots : TRUE
                ip == SubSeq(body, 1, p - 1)
                fp == SubSeq(body, p + 1, Len(body))
            IN  IF AllDigits(ip) /\ AllDigits(fp) /\ Len(ip) + Len(fp) > 0
                THEN Float(neg, NumOf(ip) * 1000 + FracMills(fp))
                ELSE NaN
        ELSE NaN

\* pd.to_numeric(..., errors="coerce") on one cell
ToNumeric(cell) == IF cell.nan THEN NaN ELSE ParseDecimal(Strip(cell.text))

\* the cell is an integer literal (no fraction, no exponent)
IsIntCell(cell) ==
    /\ ~cell.nan
    /\ ~ToNumeric(cell).nan
    /\ DotPositions(cell.text) = { }

\* pd.to_numeric gives an int64 column when every cell is an integer, and a
\* float64 column otherwise (a NaN forces float64)
IsInt64(series) == \A k \in 1..Len(series) : IsIntCell(series[k])

\* values * -1: an int64 zero stays 0, a float64 zero becomes -0.0
Negate(a, int64) ==
    IF a.nan THEN a
    ELSE IF int64 /\ a.mills = 0 THEN a
    ELSE Float(~a.neg, a.mills)

normalize_amount(series, invert) ==
    LET values == [k \in 1..Len(series) |-> ToNumeric(series[k])]
    IN  IF invert
        THEN [k \in 1..Len(series) |-> Negate(values[k], IsInt64(series))]
        ELSE values

\* amount >= 0: false for NaN, true for both zeros
GeZero(a) == ~a.nan /\ (~a.neg \/ a.mills = 0)

\* thousandths rounded to hundredths, to nearest (half to even)
Cents(mills) ==
    LET q == mills \div 10
        r == mills % 10
    IN  IF r > 5 \/ (r = 5 /\ q % 2 = 1) THEN q + 1 ELSE q

\* f"{amount:.2f}": the sign is kept when the magnitude rounds to zero
Format2f(a) ==
    IF a.nan THEN << "n", "a", "n" >>
    ELSE (IF a.neg THEN << "-" >> ELSE << >>)
         \o FormatNat(Cents(a.mills) \div 100) \o << "." >> \o Pad(Cents(a.mills) % 100, 2)

(***************************************************************************)
(* Dates: a timestamp is NaT or a calendar date with a time of day.        *)
(***************************************************************************)
NaT == [nat |-> TRUE, Y |-> 0, m |-> 0, d |-> 0, H |-> 0, M |-> 0]

Epoch == [nat |-> FALSE, Y |-> 1900, m |-> 1, d |-> 1, H |-> 0, M |-> 0]

IsLeap(y) == (y % 4 = 0 /\ y % 100 # 0) \/ y % 400 = 0

DaysInMonth(y, m) ==
    IF m = 2 THEN (IF IsLeap(y) THEN 29 ELSE 28)
    ELSE IF m \in { 4, 6, 9, 11 } THEN 30 ELSE 31

ValidTimestamp(t) ==
    /\ ~t.nat
    /\ t.m \in 1..12
    /\ t.d >= 1 /\ t.d <= DaysInMonth(t.Y, t.m)
    /\ t.H \in 0..23
    /\ t.M \in 0..59

\* the number of leading digits a directive consumes: %Y four, the others two or one
DigitsTaken(s, directive) ==
    IF directive = "Y" THEN
        (IF Len(s) >= 4 /\ AllDigits(SubSeq(s, 1, 4)) THEN 4 ELSE 0)
    ELSE IF Len(s) >= 2 /\ AllDigits(SubSeq(s, 1, 2)) THEN 2
    ELSE IF Len(s) >= 1 /\ IsDigit(s[1]) THEN 1
    ELSE 0

\* strict parsing of s against the pattern f (directives %Y %m %d %H %M)
RECURSIVE Strptime(_, _, _)
Strptime(s, f, acc) ==
    IF f = << >> THEN (IF s = << >> THEN acc ELSE NaT)
    ELSE IF f[1] = "%" THEN
        IF Len(f) < 2 \/ f[2] \notin { "Y", "m", "d", "H", "M" } THEN NaT
        ELSE LET n == DigitsTaken(s, f[2])
             IN  IF n = 0 THEN NaT
                 ELSE Strptime(SubSeq(s, n + 1, Len(s)), SubSeq(f, 3, Len(f)),
                               [acc EXCEPT ![f[2]] = NumOf(SubSeq(s, 1, n))])
    ELSE IF s # << >> /\ s[1] = f[1] THEN Strptime(Tail(s), Tail(f), acc)
    ELSE NaT

ParseWith(s, f) ==
    LET t == Strptime(s, f, Epoch) IN IF ValidTimestamp(t) THEN t ELSE NaT

IsoDate == << "%", "Y", "-", "%", "m", "-", "%", "d" >>

IsoDateTime == IsoDate \o << " ", "%", "H", ":", "%", "M" >>

\* pd.to_datetime(..., format=f, errors="coerce") on one cell
ToDatetimeFormat(cell, f) == IF cell.nan THEN NaT ELSE ParseWith(cell.text, f)

\* pd.to_datetime(..., errors="coerce") on one cell: generic parsing, here of
\* the ISO forms "YYYY-MM-DD" and "YYYY-MM-DD HH:MM"
ToDatetime(cell) ==
    IF cell.nan THEN NaT
    ELSE IF ~ParseWith(cell.text, IsoDate).nat THEN ParseWith(cell.text, IsoDate)
    ELSE ParseWith(cell.text, IsoDateTime)

parse_date(series, fmt) ==
    IF Strip(fmt) # << >>
    THEN [k \in 1..Len(series) |-> ToDatetimeFormat(series[k], fmt)]
    ELSE [k \in 1..Len(series) |-> ToDatetime(series[k])]

\* f"{when:%Y%m%d}"
FormatYmd(t) == Pad(t.Y, 4) \o Pad(t.m, 2) \o Pad(t.d, 2)

\* f"{when:%Y%m%d%H%M%S}"; the model's clock has whole minutes
FormatYmdHMS(t) == FormatYmd(t) \o Pad(t.H, 2) \o Pad(t.M, 2) \o Pad(0, 2)

\* the order of timestamps: by calendar day, then by time of day
Day(t) == (t.Y * 100 + t.m) * 100 + t.d

MinuteOfDay(t) == t.H * 60 + t.M

Leq(a, b) == Day(a) < Day(b) \/ (Day(a) = Day(b) /\ MinuteOfDay(a) <= MinuteOfDay(b))

(***************************************************************************)
(* generate_fitid                                                         *)
(***************************************************************************)
\* a slip: the row index is left out of the digest
generate_fitid_no_index(row_index, when, amount, memo) ==
    LET digest == FormatYmd(when) \o << "-" >> \o Format2f(amount)
        full   == IF memo # << >>
                  THEN digest \o << "-" >> \o Prefix(Strip(memo), 20)
                  ELSE digest
    IN  Remove(full, " ")

generate_fitid(row_index, when, amount, memo) ==
    LET digest == FormatYmd(when) \o << "-" >> \o Format2f(amount)
                  \o << "-" >> \o FormatNat(row_index)
        full   == IF memo # << >>
                  THEN digest \o << "-" >> \o Prefix(Strip(memo), 20)
                  ELSE digest
    IN  Remove(full, " ")

(***************************************************************************)
(* The inputs: the column mapping and the tables the conversion is run on. *)
(***************************************************************************)
\* an optional column that is not mapped (None; main passes it for "(none)")
None == "None"

AllColumns == { "date", "amount", "payee", "memo" }

\* the source has every column, or lacks one of them
ColumnSets == { AllColumns } \cup { AllColumns \ { c } : c \in AllColumns }

DateFormats == { << >>, << " " >>, IsoDate }

Row(date, amount, payee, memo) ==
    [date |-> date, amount |-> amount, payee |-> payee, memo |-> memo]

SampleRows == {
    Row(Text(<< "2", "0", "2", "4", "-", "0", "1", "-", "0", "5" >>),
        Text(<< "1", "0", "0" >>),
        Text(<< "B", "o", "b" >>),
        Text(<< "a", " ", "b" >>)),
    Row(Text(<< "2", "0", "2", "4", "-", "0", "1", "-", "0", "3" >>),
        Text(<< "-", "5", "0", ".", "5" >>),
        Missing,
        Missing),
    Row(Text(<< "2", "0", "2", "4", "-", "0", "1", "-", "0", "3" >>),
        Text(<< "-", "0", ".", "0", "0", "1" >>),
        Text(<< " " >>),
        Text(<< "r", "e", "n", "t", "\t", "j", "a", "n" >>)),
    Row(Text(<< "2", "0", "2", "4", "-", "0", "1", "-", "0", "3", " ", "0", "9", ":", "3", "0" >>),
        Text(<< "0" >>),
        Text(<< "B", "o", "b" >>),
        Text(<< " " >>)),
    Row(Text(<< "2", "0", "2", "4", "-", "0", "2", "-", "3", "0" >>),
        Text(<< "7" >>),
        Missing,
        Text(<< "p", "a", "y", "m", "e", "n", "t", " ", "r", "e", "f", " ",
                "0", "1", "2", "3", "4", "5", "6", "7", "8", "9", " ", "x" >>)),
    Row(Text(<< "2", "0", "2", "4", "-", "0", "1", "-", "0", "5" >>),
        Text(<< "T", "B", "D" >>),
        Text(<< "B", "o", "b" >>),
        Missing) }

\* a row as the source holds it: only the cells of the source's columns
Restrict(row, cols) == [c \in cols |-> row[c]]

Tables(cols) ==
    UNION { [1..n -> { Restrict(r, cols) : r \in SampleRows }] : n \in 0..MaxRows }

\* datetime.now() at clock reading t: minutes from 2024-12-31 23:59
Now(t) ==
    IF t = 0
    THEN [nat |-> FALSE, Y |-> 2024, m |-> 12, d |-> 31, H |-> 23, M |-> 59]
    ELSE [nat |-> FALSE, Y |-> 2025, m |-> 1, d |-> 1,
          H |-> (t - 1) \div 60, M |-> (t - 1) % 60]

Init ==
    /\ columns \in ColumnSets
    /\ df \in Tables(columns)
    /\ date_col = "date"
    /\ amount_col = "amount"
    /\ name_col \in { None, "payee" }
    /\ memo_col \in { None, "memo" }
    /\ invert_amount \in BOOLEAN
    /\ date_format \in DateFormats
    /\ frame = << >>
    /\ start_date = NaT
    /\ end_date = NaT
    /\ dtserver = NaT
    /\ stmttrn = << >>
    /\ pc = "normalize"
    /\ clock = 0

(***************************************************************************)
(* render_ofx                                                             *)
(***************************************************************************)
\* the series df[col]
Series(col) == [k \in 1..Len(df) |-> df[k][col]]

\* df.copy() with the columns __date and __amount; idx is the row's index label,
\* which read_csv and read_excel number from 0 in source order
WithNormalized ==
    LET dates   == parse_date(Series(date_col), date_format)
        amounts == normalize_amount(Series(amount_col), invert_amount)
    IN  [k \in 1..Len(df) |->
            [idx |-> k - 1, row |-> df[k], date |-> dates[k], amount |-> amounts[k]]]

HasValues(r) == ~r.date.nat /\ ~r.amount.nan

\* a slip: only the date is required
DropnaDateOnly(fr) == SelectSeq(fr, LAMBDA r : ~r.date.nat)

\* a slip: the surviving rows are renumbered (reset_index)
DropnaResetIndex(fr) ==
    LET kept == SelectSeq(fr, HasValues)
    IN  [k \in 1..Len(kept) |-> [kept[k] EXCEPT !.idx = k - 1]]

\* df.dropna(subset=["__date", "__amount"])
Dropna(fr) == SelectSeq(fr, HasValues)

IsSorted(fr) == \A k \in 1..(Len(fr) - 1) : Leq(fr[k].date, fr[k + 1].date)

\* df.sort_values("__date"): the default kind is quicksort, which is not a
\* stable sort, so rows with equal dates may come out in any order
SortValues(fr) ==
    { s \in { [k \in 1..Len(fr) |-> fr[p[k]]] : p \in Permutations(1..Len(fr)) } :
        IsSorted(s) }

\* a slip: .max() for the start of the range
MinDateAsMax(fr) ==
    LET dates == { fr[k].date : k \in 1..Len(fr) }
    IN  CHOOSE t \in dates : \A u \in dates : Leq(u, t)

\* df["__date"].min() and .max()
MinDate(fr) ==
    LET dates == { fr[k].date : k \in 1..Len(fr) }
    IN  CHOOSE t \in dates : \A u \in dates : Leq(t, u)

MaxDate(fr) ==
    LET dates == { fr[k].date : k \in 1..Len(fr) }
    IN  CHOOSE t \in dates : \A u \in dates : Leq(u, t)

Mapped(col) == col # None

\* a slip: amount > 0
TrnTypeStrict(amount) ==
    IF ~amount.nan /\ ~amount.neg /\ amount.mills > 0 THEN "CREDIT" ELSE "DEBIT"

\* "CREDIT" if amount >= 0 else "DEBIT"
TrnType(amount) == IF GeZero(amount) THEN "CREDIT" ELSE "DEBIT"

Transaction == << "T", "r", "a", "n", "s", "a", "c", "t", "i", "o", "n" >>

\* one pass of the loop body for the row r of the frame
Block(r) ==
    LET memo == IF Mapped(memo_col) THEN Strip(StrOf(r.row[memo_col])) ELSE << >>
        name == IF Mapped(name_col) THEN Strip(StrOf(r.row[name_col])) ELSE memo
    IN  [ src      |-> r.idx,
          TRNTYPE  |-> TrnType(r.amount),
          DTPOSTED |-> FormatYmd(r.date),
          TRNAMT   |-> Format2f(r.amount),
          FITID    |-> generate_fitid(r.idx, r.date, r.amount, memo),
          NAME     |-> IF name # << >> THEN name ELSE Transaction,
          MEMO     |-> memo ]

\* lines 57-59: df[date_col] and df[amount_col] raise KeyError for an absent column
Normalize ==
    /\ pc = "normalize"
    /\ IF date_col \in columns /\ amount_col \in columns
       THEN frame' = WithNormalized /\ pc' = "dropna"
       ELSE frame' = frame /\ pc' = "KeyError"
    /\ UNCHANGED << df, columns, date_col, amount_col, name_col, memo_col, invert_amount,
                    date_format, start_date, end_date, dtserver, stmttrn, clock >>

\* lines 61-62
DropSort ==
    /\ pc = "dropna"
    /\ frame' \in SortValues(Dropna(frame))
    /\ pc' = "start_date"
    /\ UNCHANGED << df, columns, date_col, amount_col, name_col, memo_col, invert_amount,
                    date_format, start_date, end_date, dtserver, stmttrn, clock >>

\* line 64: the clock is read only when the frame is empty
StartDate ==
    /\ pc = "start_date"
    /\ IF frame # << >>
       THEN start_date' = MinDate(frame) /\ clock' = clock
       ELSE \E t \in clock..MaxClock : clock' = t /\ start_date' = Now(t)
    /\ pc' = "end_date"
    /\ UNCHANGED << df, columns, date_col, amount_col, name_col, memo_col, invert_amount,
                    date_format, frame, end_date, dtserver, stmttrn >>

\* line 65: a second read of the clock
EndDate ==
    /\ pc = "end_date"
    /\ IF frame # << >>
       THEN end_date' = MaxDate(frame) /\ clock' = clock
       ELSE \E t \in clock..MaxClock : clock' = t /\ end_date' = Now(t)
    /\ pc' = "header"
    /\ UNCHANGED << df, columns, date_col, amount_col, name_col, memo_col, invert_amount,
                    date_format, frame, start_date, dtserver, stmttrn >>

\* lines 67-110: the head of lines; <DTSERVER> reads the clock again
Header ==
    /\ pc = "header"
    /\ \E t \in clock..MaxClock : clock' = t /\ dtserver' = Now(t)
    /\ pc' = "iterrows"
    /\ UNCHANGED << df, columns, date_col, amount_col, name_col, memo_col, invert_amount,
                    date_format, frame, start_date, end_date, stmttrn >>

\* lines 112-130: one row of df.iterrows(); row[memo_col] and row[name_col] raise
\* KeyError for an absent column
Iterrows ==
    /\ pc = "iterrows"
    /\ Len(stmttrn) < Len(frame)
    /\ IF \/ (Mapped(memo_col) /\ memo_col \notin columns)
          \/ (Mapped(name_col) /\ name_col \notin columns)
       THEN stmttrn' = stmttrn /\ pc' = "KeyError"
       ELSE stmttrn' = Append(stmttrn, Block(frame[Len(stmttrn) + 1])) /\ pc' = pc
    /\ UNCHANGED << df, columns, date_col, amount_col, name_col, memo_col, invert_amount,
                    date_format, frame, start_date, end_date, dtserver, clock >>

\* lines 132-146: the tail of lines and the returned text
Return ==
    /\ pc = "iterrows"
    /\ Len(stmttrn) = Len(frame)
    /\ pc' = "done"
    /\ UNCHANGED << df, columns, date_col, amount_col, name_col, memo_col, invert_amount,
                    date_format, frame, start_date, end_date, dtserver, stmttrn, clock >>

Next == Normalize \/ DropSort \/ StartDate \/ EndDate \/ Header \/ Iterrows \/ Return

Spec == Init /\ [][Next]_vars

\* the fields of the returned document that the claims read
DTSTART == FormatYmd(start_date)

DTEND == FormatYmd(end_date)

DTSERVER == FormatYmdHMS(dtserver)

Returned == pc = "done"

(***************************************************************************)
(* What the claims speak of.                                               *)
(***************************************************************************)
Sources == 1..Len(df)

Blocks == 1..Len(stmttrn)

\* the normalized dates and amounts of the source rows, by position
NormDates == parse_date(Series(date_col), date_format)

NormAmounts == normalize_amount(Series(amount_col), invert_amount)

NormDate(k) == NormDates[k]

NormAmount(k) == NormAmounts[k]

Survives(k) == ~NormDate(k).nat /\ ~NormAmount(k).nan

\* the blocks rendered for the source row at position k (index label k - 1)
BlocksOf(k) == { j \in Blocks : stmttrn[j].src = k - 1 }

\* the source position of block j
SourceOf(j) == stmttrn[j].src + 1

\* C1: the returned document holds exactly one <STMTTRN> block for each row whose
\* date and amount both normalize to a value, and none for any other row.
C1_OneBlockPerSurvivor ==
    Returned =>
        LET dates   == NormDates
            amounts == NormAmounts
        IN  /\ \A k \in Sources :
                  Cardinality(BlocksOf(k))
                      = (IF ~dates[k].nat /\ ~amounts[k].nan THEN 1 ELSE 0)
            /\ \A j \in Blocks : SourceOf(j) \in Sources

C1_Witness ==
    /\ Returned
    /\ Len(stmttrn) = 1
    /\ \E k \in Sources : Survives(k)
    /\ \E k \in Sources : NormDate(k).nat \/ NormAmount(k).nan

\* C2 (as claimed): the blocks are in non-decreasing order of DTPOSTED, and rows
\* with equal normalized dates keep their relative order of the input.
C2_SortedAndStable ==
    Returned =>
        \A i, j \in Blocks :
            i < j =>
                /\ NumOf(stmttrn[i].DTPOSTED) <= NumOf(stmttrn[j].DTPOSTED)
                /\ NormDate(SourceOf(i)) = NormDate(SourceOf(j))
                       => stmttrn[i].src < stmttrn[j].src

\* the value of a rendered TRNAMT is >= 0.00
RenderedGeZero(text) ==
    LET a == ParseDecimal(text) IN ~a.nan /\ (~a.neg \/ a.mills = 0)

\* C3 (as claimed): TRNTYPE is CREDIT if and only if the TRNAMT rendered in the
\* same block is >= 0.00.
C3_CreditIffRenderedGeZero ==
    Returned =>
        \A j \in Blocks : stmttrn[j].TRNTYPE = "CREDIT" <=> RenderedGeZero(stmttrn[j].TRNAMT)

\* C3 (amended): TRNTYPE is CREDIT if and only if the row's normalized amount,
\* before it is rounded to two digits, is >= 0; otherwise DEBIT.  Zero is CREDIT.
C3_CreditIffAmountGeZero ==
    Returned =>
        \A j \in Blocks :
            LET a == NormAmount(SourceOf(j))
            IN  /\ stmttrn[j].TRNTYPE \in { "CREDIT", "DEBIT" }
                /\ stmttrn[j].TRNTYPE = "CREDIT" <=> (~a.neg \/ a.mills = 0)

C3_Witness ==
    /\ Returned
    /\ \E j \in Blocks : NormAmount(SourceOf(j)).mills = 0 /\ stmttrn[j].TRNTYPE = "CREDIT"
    /\ \E j \in Blocks :
          /\ stmttrn[j].TRNAMT = << "-", "0", ".", "0", "0" >>
          /\ stmttrn[j].TRNTYPE = "DEBIT"

\* C4: when a row survives, DTSTART is the least and DTEND the greatest of the
\* surviving rows' dates, so DTSTART <= DTPOSTED <= DTEND in every block.
C4_DateRange ==
    (Returned /\ stmttrn # << >>) =>
        /\ \E j \in Blocks : stmttrn[j].DTPOSTED = DTSTART
        /\ \E j \in Blocks : stmttrn[j].DTPOSTED = DTEND
        /\ \A j \in Blocks :
              /\ NumOf(DTSTART) <= NumOf(stmttrn[j].DTPOSTED)
              /\ NumOf(stmttrn[j].DTPOSTED) <= NumOf(DTEND)
        /\ NumOf(DTSTART) <= NumOf(DTEND)

C4_Witness ==
    /\ Returned
    /\ Len(stmttrn) >= 2
    /\ NumOf(DTSTART) < NumOf(DTEND)
    /\ stmttrn[1].src > stmttrn[2].src

C6_FitidDistinct ==
    Returned =>
        /\ \A i, j \in Blocks : i # j => stmttrn[i].FITID # stmttrn[j].FITID
        /\ \A j \in Blocks : \A n \in 0..MaxIndex :
              n # stmttrn[j].src =>
                  generate_fitid(n, frame[j].date, frame[j].amount, stmttrn[j].MEMO)
                      # stmttrn[j].FITID

C6_Witness ==
    /\ Returned
    /\ \E i, j \in Blocks :
          /\ i # j
          /\ stmttrn[i].DTPOSTED = stmttrn[j].DTPOSTED
          /\ stmttrn[i].TRNAMT = stmttrn[j].TRNAMT
          /\ stmttrn[i].MEMO = stmttrn[j].MEMO
          /\ stmttrn[i].MEMO # << >>

\* a mapped column that the source does not have
ConfigurationDefect ==
    \E col \in { date_col, amount_col, name_col, memo_col } :
        Mapped(col) /\ col \notin columns

\* C7 (as claimed): when a mapped column is absent from the source, the
\* conversion never returns a document, whatever the table.
C7_AbsentColumnIsFatal == ConfigurationDefect => ~Returned

\* C8 (as claimed): when no row survives, the returned document has DTSTART and
\* DTEND equal to each other and to the date of the processing timestamp.
C8_EmptyRangeIsOneDay ==
    (Returned /\ stmttrn = << >>) =>
        /\ DTSTART = DTEND
        /\ DTSTART = Prefix(DTSERVER, 8)

\* the row's cell of an optional column is empty: not mapped, missing or blank
EmptyCell(k, col) ==
    \/ ~Mapped(col)
    \/ df[k][col].nan
    \/ Strip(df[k][col].text) = << >>

\* C9 (as claimed): with no name column NAME is the MEMO text, and when the
\* row's name and memo are both empty NAME is "Transaction" and MEMO is empty.
C9_NameDefaults ==
    Returned =>
        \A j \in Blocks :
            /\ ~Mapped(name_col) =>
                  \/ stmttrn[j].NAME = stmttrn[j].MEMO
                  \/ (stmttrn[j].MEMO = << >> /\ stmttrn[j].NAME = Transaction)
            /\ (EmptyCell(SourceOf(j), name_col) /\ EmptyCell(SourceOf(j), memo_col)) =>
                  (stmttrn[j].NAME = Transaction /\ stmttrn[j].MEMO = << >>)

\* C10 (as claimed): a FITID holds no whitespace character of any kind.
C10_FitidHasNoWhitespace ==
    Returned =>
        \A j \in Blocks : \A k \in 1..Len(stmttrn[j].FITID) :
            stmttrn[j].FITID[k] \notin Whitespace

====
